---------------------------- MODULE Spec2Model ----------------------------
(***************************************************************************)
(* ContaCibo (src/app.py): a calorie-tracking form backed by three         *)
(* spreadsheet worksheets (foods, logs, daily_status).                     *)
(*                                                                         *)
(* Text is modelled as a sequence of one-character strings, so that the    *)
(* string operations of the program (strip, lower, replace, float, the     *)
(* "%.2f" and str formats) are computed and not assumed.  Floating-point   *)
(* values are modelled as exact decimals  m * 10^e  (record fields m, e,   *)
(* neg) with the two non-finite values inf and nan; IEEE rounding of the   *)
(* last binary digit is not modelled.                                      *)
(***************************************************************************)
EXTENDS Integers, Sequences, FiniteSets, TLC

VARIABLES
    \* ---- pure numeric parsing (parse_number / safe_int) ----
    raw,            \* the text handed to parse_number and safe_int
    pn_out,         \* what parse_number(raw) returned or raised
    si_out,         \* what safe_int(raw) returned or raised
    \* ---- calc_items ----
    foods,          \* the module-level DataFrame `foods` (rows in sheet order)
    rows_data,      \* the (alimento, cantidad) lines handed to calc_items
    kcal_libres,    \* the free kcal handed to calc_items
    calc_out,       \* what calc_items returned
    \* ---- worksheets, caches, clock and the "Ver hoy" / "Agregar" views ----
    foods_ws,       \* data rows of worksheet "foods"
    foods_cache,    \* st.cache_data of load_foods_df
    daily_ws,       \* data rows of worksheet "daily_status"
    daily_cache,    \* st.cache_data of load_daily_status_df
    logs_ws,        \* data rows of worksheet "logs"
    logs_cache,     \* st.cache_data of load_logs_df
    today,          \* date.today(), as a day number
    view,           \* what the last script run displayed
    \* ---- st.session_state ----
    ss              \* one record per browser session (pending_*, edit_log_id)

vars == <<raw, pn_out, si_out, foods, rows_data, kcal_libres, calc_out,
          foods_ws, foods_cache, daily_ws, daily_cache, logs_ws, logs_cache,
          today, view, ss>>

pureVars  == <<raw, pn_out, si_out>>
calcVars  == <<foods, rows_data, kcal_libres, calc_out>>
foodsVars == <<foods_ws, foods_cache>>
dailyVars == <<daily_ws, daily_cache>>
logsVars  == <<logs_ws, logs_cache>>
sessVars  == <<ss>>

(***************************************************************************)
(* With(e, F) is F applied to the value of e: a local name bound to a      *)
(* value that is computed once, as an assignment in the source does.       *)
(***************************************************************************)
With(e, F(_)) == CHOOSE r \in {F(v) : v \in {e}} : TRUE

(***************************************************************************)
(* Bounds of the model.                                                    *)
(***************************************************************************)
MaxLen == 3         \* longest exhaustively enumerated input text
MaxPad == 2         \* longest run of blanks put around a sample word
MaxFoods == 2       \* most rows of the foods sheet handed to calc_items
MaxRows == 2        \* most (alimento, cantidad) lines handed to calc_items
MaxDay == 3         \* last day number date.today() reaches
MaxLogId == 3       \* largest id "Guardar" gives a new log row
MaxTextLines == 3   \* most lines of a text handed to calculate_from_text

(***************************************************************************)
(* Characters and Python's str methods.                                    *)
(***************************************************************************)
NBSP == "nbsp"      \* the one character U+00A0
Digits == <<"0", "1", "2", "3", "4", "5", "6", "7", "8", "9">>
UpperLetters == <<"A","B","C","D","E","F","G","H","I","J","K","L","M",
                  "N","O","P","Q","R","S","T","U","V","W","X","Y","Z">>
LowerLetters == <<"a","b","c","d","e","f","g","h","i","j","k","l","m",
                  "n","o","p","q","r","s","t","u","v","w","x","y","z">>

\* str.isspace(): true of U+00A0 as of the ASCII blanks
PyWhitespace == {" ", "\t", "\n", "\r", NBSP}
IsSpace(c) == c \in PyWhitespace

IsDigit(c) == \E i \in 1..10 : Digits[i] = c
DigitVal(c) == (CHOOSE i \in 1..10 : Digits[i] = c) - 1

LowerChar(c) ==
    IF \E i \in 1..26 : UpperLetters[i] = c
    THEN LowerLetters[CHOOSE i \in 1..26 : UpperLetters[i] = c]
    ELSE c

RECURSIVE py_lstrip(_)
py_lstrip(s) == IF s # <<>> /\ IsSpace(Head(s)) THEN py_lstrip(Tail(s)) ELSE s

\* length of s[1..n] without its trailing whitespace
RECURSIVE RStripLen(_, _)
RStripLen(s, n) == IF n > 0 /\ IsSpace(s[n]) THEN RStripLen(s, n - 1) ELSE n

py_rstrip(s) == SubSeq(s, 1, RStripLen(s, Len(s)))

\* a strip that only knows the ASCII blank (what str.strip(" ") would do)
RECURSIVE strip_ascii_only(_)
strip_ascii_only(s) ==
    IF s # <<>> /\ Head(s) = " " THEN strip_ascii_only(Tail(s))
    ELSE IF s # <<>> /\ s[Len(s)] = " "
         THEN strip_ascii_only(SubSeq(s, 1, Len(s) - 1))
         ELSE s

\* str.strip() with no argument: removes leading and trailing whitespace
py_strip(s) == With(s, LAMBDA v : With(py_lstrip(v), py_rstrip))

\* str.lower()
RECURSIVE py_lower(_)
py_lower(s) == IF s = <<>> THEN <<>> ELSE <<LowerChar(Head(s))>> \o py_lower(Tail(s))

\* str.replace(old, new) for a one-character old; new is a (possibly empty) text
RECURSIVE py_replace(_, _, _)
py_replace(s, old, new) ==
    IF s = <<>> THEN <<>>
    ELSE (IF Head(s) = old THEN new ELSE <<Head(s)>>) \o py_replace(Tail(s), old, new)

\* the `in` operator for one character
Contains(s, c) == \E i \in 1..Len(s) : s[i] = c


(***************************************************************************)
(* Values.  A finite float is  [k |-> "fin", neg, m, e]  = (-1)^neg * m *  *)
(* 10^e in canonical form: m has no trailing zero, and zero is m = 0,      *)
(* e = 0, neg = FALSE (Python's -0.0 == 0.0).  An int is the same record   *)
(* with k = "int" and e >= 0.  A raised exception is [k |-> <its class>].  *)
(***************************************************************************)
Idle == [k |-> "idle"]
ValueError == [k |-> "ValueError"]
OverflowError == [k |-> "OverflowError"]
NaN == [k |-> "nan"]
Inf(neg) == [k |-> "inf", neg |-> neg]
IsError(r) == r.k \in {"ValueError", "OverflowError"}

RECURSIVE Pow10(_)
Pow10(n) == IF n <= 0 THEN 1 ELSE 10 * Pow10(n - 1)

RECURSIVE NumDigits(_)
NumDigits(m) == IF m < 10 THEN 1 ELSE 1 + NumDigits(m \div 10)

RECURSIVE Canon(_, _, _, _)
Canon(k, neg, m, e) ==
    IF m = 0 THEN [k |-> k, neg |-> FALSE, m |-> 0, e |-> 0]
    ELSE IF m % 10 = 0 THEN Canon(k, neg, m \div 10, e + 1)
    ELSE [k |-> k, neg |-> neg, m |-> m, e |-> e]

Fin(neg, m, e) == Canon("fin", neg, m, e)
MkInt(n) == Canon("int", n < 0, IF n < 0 THEN -n ELSE n, 0)
Zero == Fin(FALSE, 0, 0)

\* the first nine significant digits of m, as a nine-digit number
Lead9(m) == m * Pow10(9 - NumDigits(m))

\* the double nearest to m * 10^e: beyond DBL_MAX (1.7976931348623157e308)
\* it is inf, below half the least denormal (2.47e-324) it is 0.0
ToDouble(neg, m, e) ==
    LET mag == e + NumDigits(m) - 1
    IN  IF m = 0 THEN Zero
        ELSE IF mag > 308 \/ (mag = 308 /\ Lead9(m) > 179769313) THEN Inf(neg)
        ELSE IF mag < -324 \/ (mag = -324 /\ Lead9(m) <= 247032822) THEN Zero
        ELSE Fin(neg, m, e)

\* the number that the first n digits of ds write
RECURSIVE DigitsValueUpTo(_, _)
DigitsValueUpTo(ds, n) ==
    IF n = 0 THEN 0 ELSE 10 * DigitsValueUpTo(ds, n - 1) + DigitVal(ds[n])

DigitsValue(ds) == With(ds, LAMBDA v : DigitsValueUpTo(v, Len(v)))

\* Index just past the longest digitpart  digit (["_"] digit)*  of s that
\* starts at i; i itself when s[i] is no digit.
RECURSIVE DigitRun(_, _)
DigitRun(s, i) ==
    IF i > Len(s) \/ ~IsDigit(s[i]) THEN i
    ELSE IF i + 1 <= Len(s) /\ IsDigit(s[i + 1]) THEN DigitRun(s, i + 1)
    ELSE IF i + 2 <= Len(s) /\ s[i + 1] = "_" /\ IsDigit(s[i + 2]) THEN DigitRun(s, i + 2)
    ELSE i + 1

OnlyDigits(s) == SelectSeq(s, IsDigit)

(***************************************************************************)
(* float(str): surrounding whitespace is ignored; then an optional sign    *)
(* and either inf / infinity / nan in any letter case, or                  *)
(*   (digitpart ["." [digitpart]] | "." digitpart) [("e"|"E") [sign]       *)
(*   digitpart].  Anything else raises ValueError.                         *)
(***************************************************************************)
py_float(str) ==
    With(py_strip(str), LAMBDA s :
    With(s # <<>> /\ s[1] = "-", LAMBDA neg :
    With(IF s # <<>> /\ s[1] \in {"+", "-"} THEN Tail(s) ELSE s, LAMBDA b :
    With(py_lower(b), LAMBDA low :
    With(DigitRun(b, 1), LAMBDA p1 :
    With(p1 <= Len(b) /\ b[p1] = ".", LAMBDA hasDot :
    With(IF hasDot THEN p1 + 1 ELSE p1, LAMBDA q0 :
    With(IF hasDot THEN DigitRun(b, q0) ELSE q0, LAMBDA p2 :
    With(p2 <= Len(b) /\ b[p2] \in {"e", "E"}, LAMBDA hasExp :
    With(hasExp /\ p2 + 1 <= Len(b) /\ b[p2 + 1] = "-", LAMBDA xneg :
    With(IF hasExp /\ p2 + 1 <= Len(b) /\ b[p2 + 1] \in {"+", "-"}
         THEN p2 + 2 ELSE p2 + 1, LAMBDA x1 :
    With(IF hasExp THEN DigitRun(b, x1) ELSE p2, LAMBDA p3 :
    With(OnlyDigits(SubSeq(b, q0, p2 - 1)), LAMBDA fracDs :
        IF low \in {<<"i","n","f">>, <<"i","n","f","i","n","i","t","y">>} THEN Inf(neg)
        ELSE IF low = <<"n","a","n">> THEN NaN
        ELSE IF ~(/\ (p1 > 1 \/ p2 > q0)
                  /\ (hasExp => p3 > x1)
                  /\ p3 = Len(b) + 1) THEN ValueError
        ELSE With(DigitsValue(OnlyDigits(SubSeq(b, 1, p1 - 1)) \o fracDs), LAMBDA m :
             With(IF hasExp THEN DigitsValue(OnlyDigits(SubSeq(b, x1, p3 - 1))) ELSE 0,
                  LAMBDA expAbs :
                 ToDouble(neg, m, (IF xneg THEN -expAbs ELSE expAbs) - Len(fracDs))))
    )))))))))))))

\* round(x) of a finite float: to the nearest integer, a tie to the even one
\* (m is at most nine digits long in every text the model parses)
RoundHalfEven(v) ==
    IF v.e >= 0 THEN Canon("int", v.neg, v.m, v.e)
    ELSE IF -v.e > 9 THEN Canon("int", FALSE, 0, 0)
    ELSE LET q == Pow10(-v.e)
             lo == v.m \div q
             r2 == 2 * (v.m % q)
             n  == IF r2 > q \/ (r2 = q /\ lo % 2 = 1) THEN lo + 1 ELSE lo
         IN  Canon("int", v.neg, n, 0)

\* int(round(x)): round(inf) raises OverflowError, round(nan) ValueError
int_round(x) ==
    IF IsError(x) THEN x
    ELSE IF x.k = "inf" THEN OverflowError
    ELSE IF x.k = "nan" THEN ValueError
    ELSE RoundHalfEven(x)

NoneWord == <<"n", "o", "n", "e">>

\* parse_number with the two replace calls of the thousands branch swapped
parse_number_swapped(x) ==
    With(py_strip(x), LAMBDA s0 :
        IF s0 = <<>> \/ py_lower(s0) = NoneWord THEN Zero
        ELSE With(py_strip(py_replace(s0, NBSP, <<" ">>)), LAMBDA s :
             IF Contains(s, ".") /\ Contains(s, ",")
             THEN py_float(py_replace(py_replace(s, ",", <<".">>), ".", <<>>))
             ELSE IF Contains(s, ",") /\ ~Contains(s, ".")
             THEN py_float(py_replace(s, ",", <<".">>))
             ELSE py_float(s)))

parse_number(x) ==
    With(py_strip(x), LAMBDA s0 :
        IF s0 = <<>> \/ py_lower(s0) = NoneWord THEN Zero
        ELSE With(py_strip(py_replace(s0, NBSP, <<" ">>)), LAMBDA s :
             IF Contains(s, ".") /\ Contains(s, ",")
             THEN py_float(py_replace(py_replace(s, ".", <<>>), ",", <<".">>))
             ELSE IF Contains(s, ",") /\ ~Contains(s, ".")
             THEN py_float(py_replace(s, ",", <<".">>))
             ELSE py_float(s)))

safe_int(x) ==
    With(py_strip(x), LAMBDA s :
        IF s = <<>> \/ py_lower(s) = NoneWord THEN MkInt(0)
        ELSE With(parse_number(s), int_round))

\* the value of an int record as a number (for the small ints of the sheets)
IntValue(r) == (IF r.neg THEN -1 ELSE 1) * r.m * Pow10(r.e)

TruthyWords == { <<"t","r","u","e">>, <<"1">>, <<"y","e","s">>, <<"s","i">>,
                 <<"s","í">>, <<"y">>, <<"t">> }

safe_bool(x) == py_lower(py_strip(x)) \in TruthyWords


(***************************************************************************)
(* Inputs of the numeric parsers: every text of at most MaxLen characters  *)
(* over InputChars, and the sample words below with at most MaxPad blanks  *)
(* (ordinary or non-breaking, in any mix) on either side.                  *)
(***************************************************************************)
RECURSIVE Texts(_, _)
Texts(chars, n) ==
    IF n = 0 THEN {<<>>}
    ELSE With(Texts(chars, n - 1), LAMBDA S :
             S \cup { Append(u, c) : u \in {w \in S : Len(w) = n - 1}, c \in chars })

InputChars == {"1", "5", ".", ",", "e", "-", "_", " ", NBSP}

SampleWords ==
    { <<>>,
      <<"n","o","n","e">>, <<"N","o","n","e">>, <<"N","O","N","E">>, <<"n","O","n","E">>,
      <<"a","b","c">>, <<"n","a","n">>, <<"i","n","f">>, <<"-","I","n","f">>,
      <<"1","e","9","9","9">>, <<"1","_","0">>,
      <<"2","9",",","5","9">>, <<"3","8","0",",","0","0">>, <<"1","2",",","0">>,
      <<"1",".","2","3","4",",","5","6">>, <<"1",",","2","3","4",",","5","6">>,
      <<"1",",","2","3","4",".","5","6">>, <<"2",",","5">>, <<"3",",","5">>,
      <<"1",NBSP,"2">>, <<"1","7","0","0">> }

Pads == Texts({" ", NBSP}, MaxPad)

Inputs ==
    Texts(InputChars, MaxLen) \cup { l \o w \o r : l \in Pads, w \in SampleWords, r \in Pads }

(***************************************************************************)
(* Values the variables hold while the part of the program they belong to  *)
(* is not the one under study.                                             *)
(***************************************************************************)
PureIdle == raw = <<>> /\ pn_out = Idle /\ si_out = Idle
CalcIdle == foods = <<>> /\ rows_data = <<>> /\ kcal_libres = 0 /\ calc_out = Idle
FoodsIdle == foods_ws = <<>> /\ foods_cache = Idle
DailyIdle == daily_ws = <<>> /\ daily_cache = Idle
LogsIdle == logs_ws = <<>> /\ logs_cache = Idle
ViewIdle == today = 1 /\ view = Idle
SessIdle == ss = <<>>

(***************************************************************************)
(* SpecParse: parse_number and safe_int applied to one input text.         *)
(***************************************************************************)
InitParse ==
    /\ raw \in Inputs
    /\ pn_out = Idle
    /\ si_out = Idle
    /\ CalcIdle /\ FoodsIdle /\ DailyIdle /\ LogsIdle /\ ViewIdle
    /\ SessIdle

CallParseNumber ==
    /\ pn_out = Idle
    /\ pn_out' = parse_number(raw)
    /\ UNCHANGED <<raw, si_out, calcVars, foodsVars, dailyVars, logsVars, today, view, sessVars>>

CallSafeInt ==
    /\ si_out = Idle
    /\ si_out' = safe_int(raw)
    /\ UNCHANGED <<raw, pn_out, calcVars, foodsVars, dailyVars, logsVars, today, view, sessVars>>

NextParse == CallParseNumber \/ CallSafeInt

SpecParse == InitParse /\ [][NextParse]_vars


(***************************************************************************)
(* Properties of parse_number and safe_int (checked under SpecParse).      *)
(* They are stated on the input text itself, without the program's strip   *)
(* and replace.                                                            *)
(***************************************************************************)
IsBlank(c) == c \in {" ", NBSP}

\* s is blanks, or the word "none" in any letter case between blanks
BlankOrNone(s) ==
    \E i \in 1..(Len(s) + 1), j \in 0..Len(s) :
        /\ \A n \in 1..Len(s) : (n < i \/ n > j) => IsBlank(s[n])
        /\ \/ j < i
           \/ /\ j = i + 3
              /\ \A n \in 1..4 : LowerChar(s[i + n - 1]) = NoneWord[n]

\* s without the blanks around it
Trimmed(s) ==
    LET inner == {n \in 1..Len(s) : ~IsBlank(s[n])}
    IN  IF inner = {} THEN <<>>
        ELSE SubSeq(s, CHOOSE a \in inner : \A n \in inner : a <= n,
                       CHOOSE b \in inner : \A n \in inner : n <= b)

CommaToPoint(s) == [n \in 1..Len(s) |-> IF s[n] = "," THEN "." ELSE s[n]]
NotPoint(c) == c # "."

\* the separator rules of the specification, applied to the trimmed text
Normalised(s) ==
    LET u == Trimmed(s)
        hasPoint == \E n \in 1..Len(u) : u[n] = "."
        hasComma == \E n \in 1..Len(u) : u[n] = ","
    IN  IF hasPoint /\ hasComma THEN CommaToPoint(SelectSeq(u, NotPoint))
        ELSE IF hasComma THEN CommaToPoint(u)
        ELSE u

\* a numeral in the widest sense: sign, digits (with digit-group
\* underscores), a decimal point, an exponent
IsNumeral(s) ==
    LET b  == IF s # <<>> /\ s[1] \in {"+", "-"} THEN Tail(s) ELSE s
        n  == Len(b)
        p1 == DigitRun(b, 1)
        q0 == IF p1 <= n /\ b[p1] = "." THEN p1 + 1 ELSE p1
        p2 == DigitRun(b, q0)
        ex == p2 <= n /\ b[p2] \in {"e", "E"}
        x1 == IF ex /\ p2 + 1 <= n /\ b[p2 + 1] \in {"+", "-"} THEN p2 + 2 ELSE p2 + 1
        p3 == IF ex THEN DigitRun(b, x1) ELSE p2
    IN  /\ (p1 > 1 \/ p2 > q0)
        /\ (ex => p3 > x1)
        /\ p3 = n + 1

\* n is an integer nearest to the finite value v
Nearest(n, v) ==
    IF v.e >= 0 THEN n.neg = v.neg /\ n.m = v.m /\ n.e = v.e
    ELSE IF -v.e > 9 THEN n.m = 0
    ELSE LET q == Pow10(-v.e)
             d == IntValue(n) * q - (IF v.neg THEN -v.m ELSE v.m)
         IN  2 * (IF d < 0 THEN -d ELSE d) <= q

\* C5: parse_number applies the separator rules to every input that is not
\* empty or "none": with both '.' and ',' every '.' is removed and ','
\* becomes the decimal point, with ',' alone ',' becomes the decimal point,
\* otherwise the text is parsed as it stands; "1.234,56" gives 1234.56 and
\* "29,59" gives 29.59.
C5_SeparatorRules ==
    (pn_out # Idle /\ ~BlankOrNone(raw)) =>
        /\ pn_out = py_float(Normalised(raw))
        /\ Trimmed(raw) = <<"1",".","2","3","4",",","5","6">> => pn_out = Fin(FALSE, 123456, -2)
        /\ Trimmed(raw) = <<"2","9",",","5","9">> => pn_out = Fin(FALSE, 2959, -2)

C5_Witness ==
    /\ raw = <<" ", NBSP>> \o <<"1",".","2","3","4",",","5","6">>
    /\ pn_out = Fin(FALSE, 123456, -2)

\* C6: parse_number returns 0.0, without error, for every input that is
\* empty or "none" (in any letter case) once the ordinary and non-breaking
\* spaces around it are removed.
C6_EmptyOrNoneIsZero ==
    (pn_out # Idle /\ BlankOrNone(raw)) => pn_out = Zero

C6_Witness ==
    /\ raw = <<NBSP, " ", "N", "O", "N", "E", " ", NBSP>>
    /\ pn_out = Zero

\* C7: parse_number raises the invalid-number-format error, and returns no
\* number, for every input whose text after trimming and separator
\* normalisation is not a numeral.
C7_RejectsNonNumerals ==
    (pn_out # Idle /\ ~BlankOrNone(raw) /\ ~IsNumeral(Normalised(raw))) =>
        pn_out = ValueError

\* C8: safe_int returns 0 for empty or "none" input; for every other input
\* on which parse_number succeeds with value v it returns an integer n with
\* |n - v| <= 1/2; and it fails exactly when parse_number fails.
C8_SafeIntFollowsParseNumber ==
    (pn_out # Idle /\ si_out # Idle) =>
        /\ BlankOrNone(raw) => si_out = MkInt(0)
        /\ (~BlankOrNone(raw) /\ pn_out.k = "fin") =>
               si_out.k = "int" /\ Nearest(si_out, pn_out)
        /\ IsError(si_out) <=> IsError(pn_out)


(***************************************************************************)
(* Float arithmetic and number formatting.                                 *)
(***************************************************************************)
\* a * b for floats
FMul(a, b) ==
    IF a.k = "nan" \/ b.k = "nan" THEN NaN
    ELSE IF a.k = "inf" \/ b.k = "inf"
         THEN IF (a.k = "fin" /\ a.m = 0) \/ (b.k = "fin" /\ b.m = 0) THEN NaN
              ELSE Inf(a.neg # b.neg)
    ELSE ToDouble(a.neg # b.neg, a.m * b.m, a.e + b.e)

\* a + b for floats
FAdd(a, b) ==
    IF a.k = "nan" \/ b.k = "nan" THEN NaN
    ELSE IF a.k = "inf" /\ b.k = "inf" THEN (IF a.neg = b.neg THEN a ELSE NaN)
    ELSE IF a.k = "inf" THEN a
    ELSE IF b.k = "inf" THEN b
    ELSE LET lo == IF a.e < b.e THEN a.e ELSE b.e
             x  == (IF a.neg THEN -1 ELSE 1) * a.m * Pow10(a.e - lo)
             y  == (IF b.neg THEN -1 ELSE 1) * b.m * Pow10(b.e - lo)
             z  == x + y
         IN  ToDouble(z < 0, IF z < 0 THEN -z ELSE z, lo)

\* float(n) of an int n
FloatOfInt(n) == Fin(n < 0, IF n < 0 THEN -n ELSE n, 0)

RECURSIVE NatText(_)
NatText(n) ==
    IF n < 10 THEN <<Digits[n + 1]>>
    ELSE NatText(n \div 10) \o <<Digits[(n % 10) + 1]>>

RECURSIVE Zeros(_)
Zeros(n) == IF n <= 0 THEN <<>> ELSE <<"0">> \o Zeros(n - 1)

\* str(n) of an int record
IntText(r) == (IF r.neg THEN <<"-">> ELSE <<>>) \o NatText(r.m) \o Zeros(r.e)

(***************************************************************************)
(* load_foods_df: the data rows of worksheet "foods" as the DataFrame the  *)
(* program works on.  A cell that safe_int or parse_number rejects makes   *)
(* the load raise.                                                         *)
(***************************************************************************)
FoodOfRow(r) ==
    [id         |-> safe_int(r.id),
     alimento   |-> py_strip(py_lower(r.alimento)),
     tipo       |-> py_strip(py_lower(r.tipo)),
     valor_kcal |-> parse_number(r.valor_kcal)]

NamedRow(f) == f.alimento # <<>>

LoadFoods(values) ==
    IF \E i \in 1..Len(values) :
           IsError(safe_int(values[i].id)) \/ IsError(parse_number(values[i].valor_kcal))
    THEN ValueError
    ELSE [k |-> "df",
          rows |-> SelectSeq([i \in 1..Len(values) |-> FoodOfRow(values[i])], NamedRow)]

(***************************************************************************)
(* calc_items                                                              *)
(***************************************************************************)
T100g == <<"1", "0", "0", "g">>
TUnidad == <<"u", "n", "i", "d", "a", "d">>
KcalSuffix == <<" ", "k", "c", "a", "l">>
KcalLibresLabel == <<"K","c","a","l"," ","l","i","b","r","e","s">>

\* foods[foods["alimento"] == alimento]: the matching rows, in order
RowsNamed(df, alimento) == SelectSeq(df, LAMBDA f : f.alimento = alimento)

\* the per-unit formula applied whatever the tipo
kcal_item_always_unit(food, cantidad) ==
    FMul(FloatOfInt(cantidad), food.valor_kcal)

\* lines 219-222
kcal_item(food, cantidad) ==
    IF food.tipo = T100g
    THEN FMul(Fin(FALSE, cantidad, -2), food.valor_kcal)
    ELSE FMul(FloatOfInt(cantidad), food.valor_kcal)

\* lines 211-216: the two `continue`s
skip_line(df, line) ==
    \/ line[1] = <<>>
    \/ line[2] <= 0
    \/ RowsNamed(df, line[1]) = <<>>

\* the free kcal appear in the detail but are not added to the total
add_kcal_libres_detail_only(acc, libres) ==
    IF libres # 0 /\ libres > 0
    THEN [acc EXCEPT !.detail_lines =
              Append(@, KcalLibresLabel \o <<":", " ">> \o NatText(libres) \o KcalSuffix)]
    ELSE acc

\* lines 236-238
add_kcal_libres(acc, libres) ==
    IF libres # 0 /\ libres > 0
    THEN [acc EXCEPT !.total = FAdd(@, FloatOfInt(libres)),
                     !.detail_lines =
                         Append(@, KcalLibresLabel \o <<":", " ">> \o NatText(libres) \o KcalSuffix)]
    ELSE acc

\* the detail line is put in front of the earlier ones
add_item_prepending(acc, alimento, cantidad, food, kcal) ==
    LET shown == int_round(kcal)
    IN  IF IsError(shown) THEN shown
        ELSE [acc EXCEPT
                !.total = FAdd(@, kcal),
                !.detail_lines = <<alimento \o <<":", " ">> \o IntText(shown) \o KcalSuffix>> \o @,
                !.detail_json = Append(@, [alimento |-> alimento, cantidad |-> cantidad,
                                           tipo |-> food.tipo,
                                           valor_kcal |-> food.valor_kcal,
                                           kcal |-> kcal])]

\* lines 224-234: round(kcal_item) raises on inf and nan
add_item(acc, alimento, cantidad, food, kcal) ==
    LET shown == int_round(kcal)
    IN  IF IsError(shown) THEN shown
        ELSE [acc EXCEPT
                !.total = FAdd(@, kcal),
                !.detail_lines = Append(@, alimento \o <<":", " ">> \o IntText(shown) \o KcalSuffix),
                !.detail_json = Append(@, [alimento |-> alimento, cantidad |-> cantidad,
                                           tipo |-> food.tipo,
                                           valor_kcal |-> food.valor_kcal,
                                           kcal |-> kcal])]

\* the for loop of lines 210-234, from line i on
RECURSIVE calc_loop(_, _, _, _)
calc_loop(df, rows, i, acc) ==
    IF IsError(acc) \/ i > Len(rows) THEN acc
    ELSE IF skip_line(df, rows[i]) THEN calc_loop(df, rows, i + 1, acc)
    ELSE With(RowsNamed(df, rows[i][1])[1], LAMBDA food :
         With(kcal_item(food, rows[i][2]), LAMBDA kcal :
         With(add_item(acc, rows[i][1], rows[i][2], food, kcal), LAMBDA next :
             calc_loop(df, rows, i + 1, next))))

calc_items(df, rows, libres) ==
    With(calc_loop(df, rows, 1, [k |-> "ok", total |-> Zero, detail_lines |-> <<>>,
                                 detail_json |-> <<>>]), LAMBDA looped :
        IF IsError(looped) THEN looped
        ELSE With(add_kcal_libres(looped, libres), LAMBDA acc :
                 [k            |-> "ok",
                  total        |-> acc.total,
                  detail_lines |-> acc.detail_lines,
                  payload      |-> [items |-> acc.detail_json, kcal_libres |-> libres]]))


(***************************************************************************)
(* SpecCalc: calc_items applied to one catalog, one list of lines and one  *)
(* amount of free kcal.  The catalog is what load_foods_df (line 199)      *)
(* makes of a foods sheet with distinct names; a kcal cell "nan" is one    *)
(* that "Guardar alimento" writes when "nan" is typed as the value.        *)
(***************************************************************************)
TPollo == <<"p", "o", "l", "l", "o">>
THuevo == <<"h", "u", "e", "v", "o">>
TAgua == <<"a", "g", "u", "a">>
TNonexistent == <<"n", "o", "n", "e", "x">>

FoodRowPool ==
    { [id |-> <<"1">>, alimento |-> TPollo, tipo |-> T100g,
       valor_kcal |-> <<"1","6","5",".","0","0">>],
      [id |-> <<"1">>, alimento |-> <<"P","o","l","l","o"," ">>, tipo |-> <<"1","0","0","G">>,
       valor_kcal |-> <<"2","9",",","5","9">>],
      [id |-> <<"2">>, alimento |-> THuevo, tipo |-> TUnidad,
       valor_kcal |-> <<"7","0",".","0","0">>],
      [id |-> <<"2">>, alimento |-> THuevo, tipo |-> T100g,
       valor_kcal |-> <<"1","5","5",".","0","0">>],
      [id |-> <<"3">>, alimento |-> TAgua, tipo |-> T100g,
       valor_kcal |-> <<"n","a","n">>] }

DistinctNames(df) ==
    \A i, j \in 1..Len(df) : df[i].alimento = df[j].alimento => i = j

FoodSheets ==
    { s \in Texts(FoodRowPool, MaxFoods) : DistinctNames(LoadFoods(s).rows) }

LinePool ==
    { <<<<>>, 3>>, <<TPollo, 0>>, <<TPollo, -1>>, <<TPollo, 200>>, <<TPollo, 3>>,
      <<THuevo, 3>>, <<TAgua, 1>>, <<TNonexistent, 50>> }

InitCalc ==
    /\ \E s \in FoodSheets : foods = LoadFoods(s).rows
    /\ rows_data \in Texts(LinePool, MaxRows)
    /\ kcal_libres \in {0, 50}
    /\ calc_out = Idle
    /\ PureIdle /\ FoodsIdle /\ DailyIdle /\ LogsIdle /\ ViewIdle
    /\ SessIdle

\* the "Calcular" button's call (line 391)
CallCalcItems ==
    /\ calc_out = Idle
    /\ calc_out' = calc_items(foods, rows_data, kcal_libres)
    /\ UNCHANGED <<foods, rows_data, kcal_libres, pureVars, foodsVars, dailyVars,
                   logsVars, today, view, sessVars>>

NextCalc == CallCalcItems

SpecCalc == InitCalc /\ [][NextCalc]_vars

(***************************************************************************)
(* Properties of calc_items (checked under SpecCalc), stated in units of   *)
(* 1/10000 kcal so that they need no division.                             *)
(***************************************************************************)
\* v * 10000 for a finite v with at most four decimals
E4(v) == (IF v.neg THEN -1 ELSE 1) * v.m * Pow10(v.e + 4)

InCatalog(name) == \E j \in 1..Len(foods) : foods[j].alimento = name
CatalogItem(name) == foods[CHOOSE j \in 1..Len(foods) : foods[j].alimento = name]

ValidLine(line) == line[1] # <<>> /\ line[2] > 0 /\ InCatalog(line[1])
RetainedLines == SelectSeq(rows_data, ValidLine)

\* the contribution of a retained line, times 1000000
Contribution(line) ==
    LET item == CatalogItem(line[1])
    IN  IF item.tipo = T100g THEN line[2] * E4(item.valor_kcal)
        ELSE 100 * line[2] * E4(item.valor_kcal)

RECURSIVE SumContributions(_)
SumContributions(lines) ==
    IF lines = <<>> THEN 0 ELSE Contribution(Head(lines)) + SumContributions(Tail(lines))

StartsWith(s, prefix) ==
    Len(s) >= Len(prefix) /\ SubSeq(s, 1, Len(prefix)) = prefix

\* C1: every retained line contributes (quantity/100) * unit_value when its
\* item is priced per 100 g and quantity * unit_value when it is priced per
\* unit; three "huevo" at 70 kcal a unit make 210 kcal.
C1_PricingFormula ==
    calc_out.k = "ok" =>
        /\ Len(calc_out.payload.items) = Len(RetainedLines)
        /\ \A n \in 1..Len(RetainedLines) :
              LET line == RetainedLines[n]
                  item == CatalogItem(line[1])
                  got  == calc_out.payload.items[n]
              IN  /\ got.alimento = line[1]
                  /\ item.tipo \in {T100g, TUnidad}
                  /\ item.tipo = T100g =>
                         100 * E4(got.kcal) = line[2] * E4(item.valor_kcal)
                  /\ item.tipo = TUnidad =>
                         E4(got.kcal) = line[2] * E4(item.valor_kcal)
        /\ (RetainedLines = <<<<THuevo, 3>>>> /\ CatalogItem(THuevo).tipo = TUnidad
                /\ kcal_libres = 0)
               => calc_out.total = Fin(FALSE, 210, 0)

C1_Witness ==
    /\ calc_out.k = "ok"
    /\ rows_data = <<<<TPollo, 200>>, <<THuevo, 3>>>>
    /\ InCatalog(TPollo) /\ InCatalog(THuevo)
    /\ CatalogItem(TPollo).tipo = T100g
    /\ CatalogItem(THuevo).tipo = TUnidad
    /\ calc_out.payload.items[1].kcal = Fin(FALSE, 330, 0)
    /\ calc_out.payload.items[2].kcal = Fin(FALSE, 210, 0)

\* C2: calc_items never fails, and its result (total and breakdown) is the
\* result for the same list without the lines whose name is empty, whose
\* quantity is <= 0 or whose name is not in the catalog; a list of such
\* lines only, with no free kcal, gives total 0 and an empty breakdown.
C2_NeverFailsSkipsInvalid ==
    calc_out # Idle =>
        /\ calc_out.k = "ok"
        /\ calc_out = calc_items(foods, RetainedLines, kcal_libres)
        /\ (RetainedLines = <<>> /\ kcal_libres = 0) =>
               calc_out.total = Zero /\ calc_out.detail_lines = <<>>

\* C3: the total returned is the sum of the contributions of the retained
\* lines, plus the free kcal when they are > 0, and is not rounded; 200 g of
\* "pollo" at 165 kcal per 100 g make 330 kcal.
C3_TotalIsSum ==
    calc_out.k = "ok" =>
        /\ 100 * E4(calc_out.total) =
               SumContributions(RetainedLines)
                   + (IF kcal_libres > 0 THEN 1000000 * kcal_libres ELSE 0)
        /\ (RetainedLines = <<<<TPollo, 200>>>> /\ kcal_libres = 0
                /\ CatalogItem(TPollo) = [id |-> MkInt(1), alimento |-> TPollo, tipo |-> T100g,
                                          valor_kcal |-> Fin(FALSE, 165, 0)])
               => calc_out.total = Fin(FALSE, 330, 0)

\* 3 g of "pollo" at 29.59 kcal per 100 g and 50 free kcal: 50.8877 kcal
C3_Witness ==
    /\ calc_out.k = "ok"
    /\ RetainedLines = <<<<TPollo, 3>>>>
    /\ CatalogItem(TPollo).valor_kcal = Fin(FALSE, 2959, -2)
    /\ kcal_libres = 50
    /\ calc_out.total = Fin(FALSE, 508877, -4)

IsLibresEntry(s) == StartsWith(s, KcalLibresLabel)

\* C4: the breakdown returned holds one entry per retained line, in the
\* order of the input lines (a name in two lines gives two entries), then
\* one "Kcal libres" entry if and only if the free kcal are > 0.
C4_BreakdownOrder ==
    calc_out.k = "ok" =>
        LET lines == calc_out.detail_lines
            kept  == Len(RetainedLines)
        IN  /\ Len(lines) = kept + (IF kcal_libres > 0 THEN 1 ELSE 0)
            /\ \A n \in 1..kept :
                  /\ n <= Len(lines)
                  /\ StartsWith(lines[n], RetainedLines[n][1] \o <<":", " ">>)
                  /\ ~IsLibresEntry(lines[n])
            /\ Cardinality({n \in 1..Len(lines) : IsLibresEntry(lines[n])})
                   = (IF kcal_libres > 0 THEN 1 ELSE 0)
            /\ kcal_libres > 0 => (lines # <<>> /\ IsLibresEntry(lines[Len(lines)]))

C4_Witness ==
    /\ calc_out.k = "ok"
    /\ rows_data = <<<<THuevo, 3>>, <<TPollo, 200>>>>
    /\ kcal_libres = 50
    /\ Len(calc_out.detail_lines) = 3
    /\ StartsWith(calc_out.detail_lines[1], THuevo)
    /\ StartsWith(calc_out.detail_lines[2], TPollo)
    /\ calc_out.detail_lines[3] = KcalLibresLabel \o <<":", " ", "5", "0">> \o KcalSuffix


(***************************************************************************)
(* "Agregar alimento": the upsert of a food into worksheet "foods".        *)
(***************************************************************************)
\* f"{x:.2f}" (a finite x is rounded to two decimals on its decimal value)
Format2(x) ==
    IF x.k = "nan" THEN <<"n", "a", "n">>
    ELSE IF x.k = "inf" THEN (IF x.neg THEN <<"-">> ELSE <<>>) \o <<"i", "n", "f">>
    ELSE LET cents ==
                 IF x.e >= -2 THEN x.m * Pow10(x.e + 2)
                 ELSE LET q  == Pow10(-x.e - 2)
                          lo == x.m \div q
                          r2 == 2 * (x.m % q)
                      IN  IF r2 > q \/ (r2 = q /\ lo % 2 = 1) THEN lo + 1 ELSE lo
         IN  (IF x.neg THEN <<"-">> ELSE <<>>)
                 \o NatText(cents \div 100) \o <<".">>
                 \o <<Digits[((cents \div 10) % 10) + 1], Digits[(cents % 10) + 1]>>

\* a st.cache_data function: the cached value when there is one
CachedLoad(cache, fresh) == IF cache = Idle THEN fresh ELSE cache

\* the largest of the ids of rows 1..n
RECURSIVE MaxIdUpTo(_, _)
MaxIdUpTo(rows, n) ==
    IF n = 0 THEN 0
    ELSE With(MaxIdUpTo(rows, n - 1), LAMBDA rest :
         With(IntValue(rows[n].id), LAMBDA id :
             IF n = 1 \/ id > rest THEN id ELSE rest))

MaxId(rows) == MaxIdUpTo(rows, Len(rows))

\* first data row of the sheet whose alimento cell is nombre_n (0: none)
FoodRowIndex(values, nombre_n) ==
    LET hits == {i \in 1..Len(values) : py_lower(py_strip(values[i].alimento)) = nombre_n}
    IN  IF hits = {} THEN 0 ELSE CHOOSE i \in hits : \A j \in hits : i <= j

\* the save without the lookup of an existing row
save_food_always_append(values, foods_now, nombre_n, tipo, valor_f) ==
    LET new_id == IF foods_now.rows # <<>> THEN MaxId(foods_now.rows) + 1 ELSE 1
    IN  [ws    |-> Append(values, [id |-> NatText(new_id), alimento |-> nombre_n,
                                   tipo |-> tipo, valor_kcal |-> Format2(valor_f)]),
         cache |-> Idle,
         msg   |-> "Agregado"]

\* lines 516-547
save_food(values, foods_now, nombre_n, tipo, valor_f) ==
    LET existing   == RowsNamed(foods_now.rows, nombre_n)
        target_row == FoodRowIndex(values, nombre_n)
        new_id     == IF foods_now.rows # <<>> THEN MaxId(foods_now.rows) + 1 ELSE 1
    IN  IF existing # <<>>
        THEN IF target_row = 0
             THEN [ws |-> values, cache |-> foods_now, msg |-> "No encontré la fila"]
             ELSE [ws    |-> [values EXCEPT ![target_row] =
                                 [@ EXCEPT !.alimento = nombre_n, !.tipo = tipo,
                                           !.valor_kcal = Format2(valor_f)]],
                   cache |-> Idle,
                   msg   |-> "Actualizado"]
        ELSE [ws    |-> Append(values, [id |-> NatText(new_id), alimento |-> nombre_n,
                                        tipo |-> tipo, valor_kcal |-> Format2(valor_f)]),
              cache |-> Idle,
              msg   |-> "Agregado"]

TPan == <<"p", "a", "n">>

NombreInputs ==
    { <<" ">>, <<" ", "P", "O", "L", "L", "O">>, <<"P", "a", "n", NBSP>> }

ValorInputs ==
    { <<"2","9",",","5","9">>, <<"a","b","c">>, <<"n","a","n">> }

\* one script run in mode "Agregar alimento" with "Guardar alimento" clicked
GuardarAlimento(foods0, nombre, tipo, valor) ==
    \E nombre_n \in {py_lower(py_strip(nombre))} :
    \E valor_f \in {parse_number(valor)} :
        /\ IF nombre_n = <<>>
           THEN /\ foods_ws' = foods_ws
                /\ foods_cache' = foods0
                /\ view' = [k |-> "agregar", nombre |-> nombre_n, msg |-> "Falta el nombre"]
           ELSE IF IsError(valor_f)
           THEN /\ foods_ws' = foods_ws
                /\ foods_cache' = foods0
                /\ view' = [k |-> "agregar", nombre |-> nombre_n, msg |-> "Valor kcal inválido"]
           ELSE \E saved \in {save_food(foods_ws, foods0, nombre_n, tipo, valor_f)} :
                /\ foods_ws' = saved.ws
                /\ foods_cache' = saved.cache
                /\ view' = [k |-> "agregar", nombre |-> nombre_n, msg |-> saved.msg]
        /\ UNCHANGED <<pureVars, calcVars, dailyVars, logsVars, today, sessVars>>

InitFoods ==
    /\ foods_ws \in FoodSheets
    /\ foods_cache = Idle
    /\ PureIdle /\ CalcIdle /\ DailyIdle /\ LogsIdle /\ ViewIdle
    /\ SessIdle

\* foods0 is what line 199 loads at the top of the script run
NextFoods ==
    \E foods0 \in {CachedLoad(foods_cache, LoadFoods(foods_ws))} :
    \E nombre \in NombreInputs, tipo \in {T100g, TUnidad}, valor \in ValorInputs :
        GuardarAlimento(foods0, nombre, tipo, valor)

SpecFoods == InitFoods /\ [][NextFoods]_vars

(***************************************************************************)
(* Properties of the catalog (checked under SpecFoods).                    *)
(***************************************************************************)
\* the catalog a sheet holds: its named rows, each under its lowercased,
\* trimmed name, with the id, pricing mode and value cells as stored
CatalogRow(r) == [r EXCEPT !.alimento = py_strip(py_lower(r.alimento))]
Catalog(ws) == SelectSeq([i \in 1..Len(ws) |-> CatalogRow(ws[i])], NamedRow)
CatalogNames(ws) == {Catalog(ws)[i].alimento : i \in 1..Len(Catalog(ws))}

\* what one step may do to the catalog old, making it new
CatalogChange(old, new, names) ==
    LET changed == {i \in 1..Len(old) : new[i] # old[i]}
    IN  /\ Len(new) >= Len(old)
        /\ \A i \in 1..Len(old) : new[i].id = old[i].id /\ new[i].alimento = old[i].alimento
        /\ view'.msg = "Actualizado" =>
               /\ Len(new) = Len(old)
               /\ view'.nombre \in names
               /\ \A i \in changed : old[i].alimento = view'.nombre
        /\ view'.msg = "Agregado" =>
               /\ Len(new) = Len(old) + 1
               /\ changed = {}
               /\ view'.nombre \notin names
               /\ new[Len(new)].alimento = view'.nombre
        /\ view'.msg \notin {"Actualizado", "Agregado"} => new = old

CatalogStep ==
    \A old \in {Catalog(foods_ws)}, new \in {Catalog(foods_ws')} :
        DistinctNames(old) =>
            /\ DistinctNames(new)
            /\ CatalogChange(old, new, {old[i].alimento : i \in 1..Len(old)})

\* C9: the catalog is keyed by the lowercased, trimmed name: after any
\* sequence of "Guardar alimento" no two rows have the same name; saving an
\* existing name changes only that row's pricing mode and value (its id
\* and every other row stay), saving a new name appends exactly one row, and
\* no step removes a row.
C9_CatalogKeyedByName == [][CatalogStep]_vars

\* "pollo" was updated in a catalog to which "pan" had been appended
C9_Witness ==
    /\ view.k = "agregar" /\ view.msg = "Actualizado" /\ view.nombre = TPollo
    /\ TPan \in CatalogNames(foods_ws)
    /\ \E i \in 1..Len(foods_ws) :
          /\ foods_ws[i].alimento = TPollo
          /\ foods_ws[i].tipo = TUnidad
          /\ foods_ws[i].valor_kcal = <<"2","9",".","5","9">>


(***************************************************************************)
(* "Ver hoy": the day's gym flag and goal (worksheet "daily_status") and   *)
(* the day's logged totals (worksheet "logs").                             *)
(***************************************************************************)
META_NORMAL == 1700
META_GYM == 1950

TTrue == <<"T", "R", "U", "E">>
TFalse == <<"F", "A", "L", "S", "E">>

\* "TRUE" if gym else "FALSE"
BoolText(b) == IF b THEN TTrue ELSE TFalse

\* str(date.today()) on day number d
DateText(d) == <<"2", "0", "2", "6", "-", "1", "1", "-", "0">> \o NatText(d)

DailyOfRow(r) ==
    [fecha |-> py_strip(r.fecha),
     gym   |-> safe_bool(r.gym),
     meta  |-> safe_int(r.meta)]

RECURSIVE DailyRows(_)
DailyRows(values) ==
    IF values = <<>> THEN <<>>
    ELSE <<DailyOfRow(Head(values))>> \o DailyRows(Tail(values))

\* load_daily_status_df
LoadDaily(values) ==
    IF \E i \in 1..Len(values) : IsError(safe_int(values[i].meta))
    THEN ValueError
    ELSE [k |-> "df", rows |-> DailyRows(values)]

LogOfRow(r) ==
    [id           |-> safe_int(r.id),
     fecha        |-> py_strip(r.fecha),
     timestamp    |-> py_strip(r.timestamp),
     meal         |-> py_strip(py_lower(r.meal)),
     total_kcal   |-> parse_number(r.total_kcal),
     detalle      |-> r.detalle,
     kcal_libres  |-> safe_int(r.kcal_libres),
     detalle_json |-> r.detalle_json]

RECURSIVE LogRows(_)
LogRows(values) ==
    IF values = <<>> THEN <<>>
    ELSE <<LogOfRow(Head(values))>> \o LogRows(Tail(values))

\* load_logs_df
LoadLogs(values) ==
    IF \E i \in 1..Len(values) :
           \/ IsError(safe_int(values[i].id))
           \/ IsError(parse_number(values[i].total_kcal))
           \/ IsError(safe_int(values[i].kcal_libres))
    THEN ValueError
    ELSE [k |-> "df", rows |-> LogRows(values)]

\* df[df["fecha"] == fecha_str]
RowsOfDate(df, fecha_str) == SelectSeq(df, LAMBDA r : r.fecha = fecha_str)

\* a get-or-create that appends the default row whether or not the date
\* has one
get_or_create_daily_status_appending(values, cache, fecha_str) ==
    With(CachedLoad(cache, LoadDaily(values)), LAMBDA df :
    With(RowsOfDate(df.rows, fecha_str), LAMBDA row :
        [ws    |-> Append(values, [fecha |-> fecha_str, gym |-> TFalse,
                                   meta |-> NatText(META_NORMAL)]),
         cache |-> Idle,
         gym   |-> IF row = <<>> THEN FALSE ELSE row[1].gym,
         meta  |-> IF row = <<>> THEN META_NORMAL
                   ELSE IF IntValue(row[1].meta) > 0 THEN IntValue(row[1].meta)
                   ELSE IF row[1].gym THEN META_GYM ELSE META_NORMAL]))

\* lines 251-263; ws and cache are the sheet and the cache it leaves
get_or_create_daily_status(values, cache, fecha_str) ==
    With(CachedLoad(cache, LoadDaily(values)), LAMBDA df :
    With(RowsOfDate(df.rows, fecha_str), LAMBDA row :
        IF row = <<>>
        THEN [ws    |-> Append(values, [fecha |-> fecha_str, gym |-> TFalse,
                                        meta |-> NatText(META_NORMAL)]),
              cache |-> Idle,
              gym   |-> FALSE,
              meta  |-> META_NORMAL]
        ELSE [ws    |-> values,
              cache |-> df,
              gym   |-> row[1].gym,
              meta  |-> IF IntValue(row[1].meta) > 0 THEN IntValue(row[1].meta)
                        ELSE IF row[1].gym THEN META_GYM ELSE META_NORMAL]))

\* lines 278-282: first data row whose fecha cell is fecha_str (0: none)
DailyRowIndex(values, fecha_str) ==
    LET hits == {i \in 1..Len(values) : py_strip(values[i].fecha) = fecha_str}
    IN  IF hits = {} THEN 0 ELSE CHOOSE i \in hits : \A j \in hits : i <= j

\* an upsert that writes the normal-day goal whatever the flag
upsert_daily_status_normal_meta(values, fecha_str, gym) ==
    LET target_row == DailyRowIndex(values, fecha_str)
    IN  [ws    |-> IF target_row = 0
                   THEN Append(values, [fecha |-> fecha_str, gym |-> BoolText(gym),
                                        meta |-> NatText(META_NORMAL)])
                   ELSE [values EXCEPT ![target_row] =
                            [@ EXCEPT !.gym = BoolText(gym), !.meta = NatText(META_NORMAL)]],
         cache |-> Idle]

\* lines 266-292
upsert_daily_status(values, fecha_str, gym) ==
    LET meta       == IF gym THEN META_GYM ELSE META_NORMAL
        target_row == DailyRowIndex(values, fecha_str)
    IN  [ws    |-> IF target_row = 0
                   THEN Append(values, [fecha |-> fecha_str, gym |-> BoolText(gym),
                                        meta |-> NatText(meta)])
                   ELSE [values EXCEPT ![target_row] =
                            [@ EXCEPT !.gym = BoolText(gym), !.meta = NatText(meta)]],
         cache |-> Idle]

\* today_logs["total_kcal"].sum()
RECURSIVE SumTotalsUpTo(_, _)
SumTotalsUpTo(rows, n) ==
    IF n = 0 THEN Zero
    ELSE With(SumTotalsUpTo(rows, n - 1), LAMBDA acc : FAdd(acc, rows[n].total_kcal))

SumTotals(rows) == SumTotalsUpTo(rows, Len(rows))

\* lines 574-586: what "Ver hoy" shows of the goal and the delta
HoyView(hoy, st, logs, actualizado) ==
    With(RowsOfDate(logs.rows, hoy), LAMBDA today_logs :
        [k           |-> "hoy",
         fecha       |-> hoy,
         gym         |-> st.gym,
         meta        |-> st.meta,
         has_logs    |-> today_logs # <<>>,
         delta       |-> IF today_logs = <<>> THEN Idle
                         ELSE With(SumTotals(today_logs), LAMBDA total_dia :
                                  FAdd(total_dia, FloatOfInt(0 - st.meta))),
         actualizado |-> actualizado])

\* one script run in mode "Ver hoy" with the radio left where it is
VerHoy ==
    \E hoy \in {DateText(today)} :
    \E st \in {get_or_create_daily_status(daily_ws, daily_cache, hoy)} :
    \E logs \in {CachedLoad(logs_cache, LoadLogs(logs_ws))} :
        /\ daily_ws' = st.ws
        /\ daily_cache' = st.cache
        /\ logs_cache' = logs
        /\ view' = HoyView(hoy, st, logs, FALSE)
        /\ UNCHANGED <<logs_ws, today, pureVars, calcVars, foodsVars, sessVars>>

\* the radio is set to the other choice: lines 568-572, then the script run
\* that st.rerun() starts, in which the radio shows the stored flag
ToggleGym ==
    /\ view.k = "hoy"
    /\ \E hoy \in {DateText(today)} :
       \E st1 \in {get_or_create_daily_status(daily_ws, daily_cache, hoy)} :
       \E up \in {upsert_daily_status(st1.ws, hoy, ~st1.gym)} :
       \E st2 \in {get_or_create_daily_status(up.ws, up.cache, hoy)} :
       \E st3 \in {get_or_create_daily_status(st2.ws, st2.cache, hoy)} :
       \E logs \in {CachedLoad(logs_cache, LoadLogs(logs_ws))} :
           /\ daily_ws' = st3.ws
           /\ daily_cache' = st3.cache
           /\ logs_cache' = logs
           /\ view' = HoyView(hoy, st3, logs, TRUE)
    /\ UNCHANGED <<logs_ws, today, pureVars, calcVars, foodsVars, sessVars>>

\* midnight passes
NextDay ==
    /\ today < MaxDay
    /\ today' = today + 1
    /\ UNCHANGED <<pureVars, calcVars, foodsVars, dailyVars, logsVars, view, sessVars>>

\* The row of day d in a sheet this program has kept: none, the row a first
\* view appends, the row a toggle to gym leaves, or a gym row from before the
\* sheet had a meta column (ensure_headers adds the header, the cell is empty).
DailyRowChoices(d) ==
    { <<>>,
      <<[fecha |-> DateText(d), gym |-> TFalse, meta |-> NatText(META_NORMAL)]>>,
      <<[fecha |-> DateText(d), gym |-> TTrue, meta |-> NatText(META_GYM)]>>,
      <<[fecha |-> DateText(d), gym |-> TTrue, meta |-> <<>>]>> }

RECURSIVE DailySheetsUpTo(_)
DailySheetsUpTo(d) ==
    IF d = 0 THEN {<<>>}
    ELSE {s \o r : s \in DailySheetsUpTo(d - 1), r \in DailyRowChoices(d)}

TAlmuerzo == <<"a", "l", "m", "u", "e", "r", "z", "o">>
TCena == <<"c", "e", "n", "a">>

\* str(datetime.now()) on day number d (one reading of the clock per day)
NowText(d) == DateText(d) \o <<" ","1","2",":","3","0",":","0","0",".","0","0","0","0","0","0">>

\* log sheets as "Guardar" writes them (total_kcal is f"{total:.2f}"); the
\* rows are from before the sheet had the column detalle_json (ensure_headers
\* adds the header, the cells are empty)
LogSheets ==
    { <<>>,
      <<[id |-> <<"1">>, fecha |-> DateText(1),
         timestamp |-> NowText(1), meal |-> TAlmuerzo,
         total_kcal |-> <<"1","2","0","0",".","5","0">>,
         detalle |-> <<"p","a","s","t","a",":"," ","1","2","0","0"," ","k","c","a","l">>,
         kcal_libres |-> <<"0">>, detalle_json |-> <<>>],
        [id |-> <<"2">>, fecha |-> DateText(1),
         timestamp |-> NowText(1), meal |-> TCena,
         total_kcal |-> <<"9","0","0",".","0","0">>,
         detalle |-> <<"p","i","z","z","a",":"," ","9","0","0"," ","k","c","a","l">>,
         kcal_libres |-> <<"0">>, detalle_json |-> <<>>],
        [id |-> <<"3">>, fecha |-> DateText(2),
         timestamp |-> NowText(2), meal |-> TCena,
         total_kcal |-> <<"6","5","0",".","2","5">>,
         detalle |-> <<"K","c","a","l"," ","l","i","b","r","e","s",":"," ","6","5","0"," ","k","c","a","l">>,
         kcal_libres |-> <<"6","5","0">>, detalle_json |-> <<>>]>>,
      <<[id |-> <<"1">>, fecha |-> DateText(2),
         timestamp |-> NowText(2), meal |-> TAlmuerzo,
         total_kcal |-> <<"2","1","0","0",".","0","0">>,
         detalle |-> <<"a","s","a","d","o",":"," ","2","1","0","0"," ","k","c","a","l">>,
         kcal_libres |-> <<"0">>, detalle_json |-> <<>>],
        [id |-> <<"2">>, fecha |-> DateText(1),
         timestamp |-> NowText(1), meal |-> TAlmuerzo,
         total_kcal |-> <<"3","3",".","3","3">>,
         detalle |-> <<"p","a","n",":"," ","3","3"," ","k","c","a","l">>,
         kcal_libres |-> <<"0">>, detalle_json |-> <<>>]>> }

InitDaily ==
    /\ daily_ws \in DailySheetsUpTo(MaxDay)
    /\ daily_cache = Idle
    /\ logs_ws \in LogSheets
    /\ logs_cache = Idle
    /\ today = 1
    /\ view = Idle
    /\ PureIdle /\ CalcIdle /\ FoodsIdle
    /\ SessIdle

NextDaily == VerHoy \/ ToggleGym \/ NextDay

SpecDaily == InitDaily /\ [][NextDaily]_vars

(***************************************************************************)
(* Properties of the day's goal (checked under SpecDaily).                 *)
(***************************************************************************)
\* the rows of the daily_status sheet stored for a date
StoredStatus(fecha) == SelectSeq(daily_ws, LAMBDA r : py_strip(r.fecha) = fecha)

\* the totals logged for a date, added up in sheet order
RECURSIVE LoggedTotal(_, _)
LoggedTotal(fecha, n) ==
    IF n = 0 THEN Zero
    ELSE IF py_strip(logs_ws[n].fecha) = fecha
         THEN FAdd(LoggedTotal(fecha, n - 1), parse_number(logs_ws[n].total_kcal))
         ELSE LoggedTotal(fecha, n - 1)

\* C10: after any sequence of "Ver hoy" views and gym/normal toggles, the
\* goal shown for the viewed date is 1950 when the gym flag stored for that
\* date is true and 1700 when it is false, and the delta shown (there is one
\* when the date has logs) is the sum of the date's logged totals minus
\* that goal.
C10_GoalFollowsGymFlag ==
    view.k = "hoy" =>
        \A stored \in {StoredStatus(view.fecha)} :
            /\ stored # <<>>
            /\ \A goal \in {IF safe_bool(stored[1].gym) THEN 1950 ELSE 1700} :
                  /\ view.meta = goal
                  /\ view.gym = safe_bool(stored[1].gym)
                  /\ view.has_logs =>
                        view.delta = FAdd(LoggedTotal(view.fecha, Len(logs_ws)),
                                          Fin(TRUE, goal, 0))

\* day 1 was toggled to gym and shows 1200.50 + 900.00 - 1950 = 150.5
C10_Witness ==
    /\ view.k = "hoy" /\ view.actualizado /\ view.fecha = DateText(1)
    /\ view.gym /\ view.meta = 1950
    /\ view.has_logs /\ view.delta = Fin(FALSE, 1505, -1)

(***************************************************************************)
(* "Calcular" / "Guardar" / "Editar" / "Eliminar": st.session_state and    *)
(* worksheet "logs".                                                       *)
(***************************************************************************)
MEALS == { <<"d", "e", "s", "a", "y", "u", "n", "o">>,
           TAlmuerzo,
           <<"m", "e", "r", "i", "e", "n", "d", "a">>,
           <<"p", "o", "s", "t", " ", "e", "n", "t", "r", "e", "n", "o">>,
           TCena,
           <<"e", "x", "t", "r", "a">> }

None == [k |-> "None"]

\* a session_state field that holds a str, a list or an int (None otherwise)
Str(s) == [k |-> "str", v |-> s]
List(l) == [k |-> "list", v |-> l]

\* lines 298-308; logs_actual is the local variable of a "Guardar" handler
\* that has read the logs and not yet written (None: no such handler)
FreshSession ==
    [pending_total   |-> None,
     pending_detail  |-> None,
     pending_payload |-> None,
     pending_meal    |-> None,
     edit_log_id     |-> None,
     logs_actual     |-> None]

\* the digits of m from position i on
DigitsFrom(m, i) == SubSeq(NatText(m), i, NumDigits(m))

\* the exponent of repr(float) in scientific notation: sign and two digits
ExpText(x) ==
    (IF x < 0 THEN <<"-">> ELSE <<"+">>)
        \o With(IF x < 0 THEN -x ELSE x, LAMBDA a :
               IF a < 10 THEN <<"0">> \o NatText(a) ELSE NatText(a))

\* repr(x) of a finite float: the shortest digits, plain when the decimal
\* point falls within -4 < pos <= 16 and scientific otherwise
FloatRepr(x) ==
    With(NumDigits(x.m) + x.e, LAMBDA pos :
        (IF x.neg THEN <<"-">> ELSE <<>>) \o
        (IF pos > 16 \/ pos <= -4
         THEN <<Head(NatText(x.m))>>
                  \o (IF NumDigits(x.m) > 1 THEN <<".">> \o DigitsFrom(x.m, 2) ELSE <<>>)
                  \o <<"e">> \o ExpText(pos - 1)
         ELSE IF x.e >= 0 THEN NatText(x.m) \o Zeros(x.e) \o <<".", "0">>
         ELSE IF pos > 0 THEN SubSeq(NatText(x.m), 1, pos) \o <<".">> \o DigitsFrom(x.m, pos + 1)
         ELSE <<"0", ".">> \o Zeros(-pos) \o NatText(x.m)))

\* json.dumps of a float (allow_nan is left at its default)
JsonFloat(x) ==
    IF x.k = "nan" THEN <<"N", "a", "N">>
    ELSE IF x.k = "inf"
         THEN (IF x.neg THEN <<"-">> ELSE <<>>) \o <<"I", "n", "f", "i", "n", "i", "t", "y">>
    ELSE FloatRepr(x)

\* json.dumps of a str with ensure_ascii=False: quotes and backslashes escaped
RECURSIVE JsonEscapeUpTo(_, _)
JsonEscapeUpTo(s, n) ==
    IF n = 0 THEN <<>>
    ELSE With(JsonEscapeUpTo(s, n - 1), LAMBDA done :
             IF s[n] \in {"\"", "\\"} THEN done \o <<"\\", s[n]>>
             ELSE IF s[n] = "\n" THEN done \o <<"\\", "n">>
             ELSE Append(done, s[n]))

JsonString(s) == <<"\"">> \o JsonEscapeUpTo(s, Len(s)) \o <<"\"">>

\* one dict of detail_json, keys in insertion order (lines 226-232)
JsonItem(it) ==
    <<"{", "\"", "a", "l", "i", "m", "e", "n", "t", "o", "\"", ":", " ">> \o JsonString(it.alimento)
        \o <<",", " ", "\"", "c", "a", "n", "t", "i", "d", "a", "d", "\"", ":", " ">> \o IntText(MkInt(it.cantidad))
        \o <<",", " ", "\"", "t", "i", "p", "o", "\"", ":", " ">> \o JsonString(it.tipo)
        \o <<",", " ", "\"", "v", "a", "l", "o", "r", "_", "k", "c", "a", "l", "\"", ":", " ">> \o JsonFloat(it.valor_kcal)
        \o <<",", " ", "\"", "k", "c", "a", "l", "\"", ":", " ">> \o JsonFloat(it.kcal)
        \o <<"}">>

RECURSIVE JsonItemsUpTo(_, _)
JsonItemsUpTo(items, n) ==
    IF n = 0 THEN <<>>
    ELSE With(JsonItemsUpTo(items, n - 1), LAMBDA done :
             (IF n = 1 THEN done ELSE done \o <<",", " ">>) \o JsonItem(items[n]))

\* json.dumps(payload, ensure_ascii=False), line 434
json_dumps(payload) ==
    <<"{", "\"", "i", "t", "e", "m", "s", "\"", ":", " ", "[">> \o JsonItemsUpTo(payload.items, Len(payload.items))
        \o <<"]", ",", " ", "\"", "k", "c", "a", "l", "_", "l", "i", "b", "r", "e", "s", "\"", ":", " ">> \o IntText(MkInt(payload.kcal_libres))
        \o <<"}">>

\* "\n".join(lines), line 432
RECURSIVE JoinLinesUpTo(_, _)
JoinLinesUpTo(lines, n) ==
    IF n = 0 THEN <<>>
    ELSE With(JoinLinesUpTo(lines, n - 1), LAMBDA done :
             (IF n = 1 THEN done ELSE Append(done, "\n")) \o lines[n])

JoinLines(lines) == JoinLinesUpTo(lines, Len(lines))

\* the row below the one that holds target_id
find_row_index_by_id_next_row(values, target_id) ==
    LET hits == {i \in 1..Len(values) : safe_int(values[i].id) = MkInt(target_id)}
    IN  IF hits = {} THEN 0
        ELSE (CHOOSE i \in hits : \A j \in hits : i <= j) + 1

\* lines 95-110: the first data row whose id cell is target_id, counted from
\* the first data row (0: None; the source counts the header row too)
find_row_index_by_id(values, target_id) ==
    LET hits == {i \in 1..Len(values) : safe_int(values[i].id) = MkInt(target_id)}
    IN  IF hits = {} THEN 0
        ELSE CHOOSE i \in hits : \A j \in hits : i <= j

\* the cells fecha..detalle_json that "Guardar" writes with only the first
\* line of the breakdown
guardar_cells_first_line(sess, hoy, now) ==
    [fecha        |-> hoy,
     timestamp    |-> now,
     meal         |-> sess.pending_meal.v,
     total_kcal   |-> Format2(sess.pending_total),
     detalle      |-> IF sess.pending_detail.v = <<>> THEN <<>>
                      ELSE sess.pending_detail.v[1],
     kcal_libres  |-> IntText(MkInt(sess.pending_payload.kcal_libres)),
     detalle_json |-> json_dumps(sess.pending_payload)]

\* lines 427-434: the cells fecha..detalle_json that "Guardar" writes
guardar_cells(sess, hoy, now) ==
    [fecha        |-> hoy,
     timestamp    |-> now,
     meal         |-> sess.pending_meal.v,
     total_kcal   |-> Format2(sess.pending_total),
     detalle      |-> JoinLines(sess.pending_detail.v),
     kcal_libres  |-> IntText(MkInt(sess.pending_payload.kcal_libres)),
     detalle_json |-> json_dumps(sess.pending_payload)]

\* a row of the sheet: the id cell and the cells fecha..detalle_json
LogRow(id, cells) ==
    [id           |-> id,
     fecha        |-> cells.fecha,
     timestamp    |-> cells.timestamp,
     meal         |-> cells.meal,
     total_kcal   |-> cells.total_kcal,
     detalle      |-> cells.detalle,
     kcal_libres  |-> cells.kcal_libres,
     detalle_json |-> cells.detalle_json]

\* ws.delete_rows(target_row)
DeleteRow(values, i) == SubSeq(values, 1, i - 1) \o SubSeq(values, i + 1, Len(values))

\* line 437
new_log_id(logs_actual) ==
    IF logs_actual.rows # <<>> THEN MaxId(logs_actual.rows) + 1 ELSE 1

\* a "Guardar" that leaves the pending calculation in the session
guardar_keeping_pending(values, logs_actual, sess, hoy, now) ==
    LET cells      == guardar_cells(sess, hoy, now)
        new_id     == new_log_id(logs_actual)
        target_row == find_row_index_by_id(values, IntValue(sess.edit_log_id))
    IN  [ws    |-> IF sess.edit_log_id = None
                   THEN Append(values, LogRow(IntText(MkInt(new_id)), cells))
                   ELSE IF target_row = 0 THEN values
                   ELSE [values EXCEPT ![target_row] = LogRow(@.id, cells)],
         cache |-> Idle,
         sess  |-> [sess EXCEPT !.edit_log_id = None, !.logs_actual = None],
         msg   |-> IF sess.edit_log_id = None THEN "Guardado"
                   ELSE IF target_row = 0 THEN "No encontré la fila"
                   ELSE "Actualizado"]

\* lines 427-494, from the read of logs_actual on: the sheet, the cache and
\* the session the handler leaves, and the message it shows
guardar(values, logs_actual, sess, hoy, now) ==
    LET cells      == guardar_cells(sess, hoy, now)
        new_id     == new_log_id(logs_actual)
        target_row == find_row_index_by_id(values, IntValue(sess.edit_log_id))
    IN  [ws    |-> IF sess.edit_log_id = None
                   THEN Append(values, LogRow(IntText(MkInt(new_id)), cells))
                   ELSE IF target_row = 0 THEN values
                   ELSE [values EXCEPT ![target_row] = LogRow(@.id, cells)],
         cache |-> Idle,
         sess  |-> FreshSession,
         msg   |-> IF sess.edit_log_id = None THEN "Guardado"
                   ELSE IF target_row = 0 THEN "No encontré la fila"
                   ELSE "Actualizado"]

(***************************************************************************)
(* The handlers.  Each is one script run of session s, taken to its end    *)
(* (and through the run that st.rerun() starts); a session whose "Guardar" *)
(* has read the logs and not yet written takes no other step.              *)
(***************************************************************************)
\* "Calcular" clicked with meal, rows and libres in the widgets (lines
\* 390-395); when calc_items raises, the run ends there
Calcular(s, meal, rows, libres) ==
    /\ ss[s].logs_actual = None
    /\ \E res \in {calc_items(foods, rows, libres)} :
        /\ IF IsError(res)
           THEN /\ ss' = ss
                /\ view' = [k |-> "calcular", msg |-> "excepción"]
           ELSE /\ ss' = [ss EXCEPT ![s] =
                            [@ EXCEPT !.pending_total = res.total,
                                      !.pending_detail = List(res.detail_lines),
                                      !.pending_payload = res.payload,
                                      !.pending_meal = Str(meal)]]
                /\ view' = [k |-> "calcular", msg |-> "total"]
    /\ UNCHANGED <<pureVars, calcVars, foodsVars, dailyVars, logsVars, today>>

\* "Cancelar edición" (lines 398-409)
CancelarEdicion(s) ==
    /\ ss[s].logs_actual = None
    /\ ss[s].edit_log_id # None
    /\ ss' = [ss EXCEPT ![s] = FreshSession]
    /\ view' = [k |-> "calcular", msg |-> "Edición cancelada"]
    /\ UNCHANGED <<pureVars, calcVars, foodsVars, dailyVars, logsVars, today>>

\* "Guardar" (lines 411-494), the button being shown only while
\* pending_total is not None
Guardar(s) ==
    /\ ss[s].logs_actual = None
    /\ ss[s].pending_total # None
    /\ \E logs_actual \in {CachedLoad(logs_cache, LoadLogs(logs_ws))} :
        /\ ~IsError(logs_actual)
        /\ ss[s].edit_log_id = None => new_log_id(logs_actual) <= MaxLogId
        /\ \E done \in {guardar(logs_ws, logs_actual, ss[s], DateText(today), NowText(today))} :
            /\ logs_ws' = done.ws
            /\ logs_cache' = done.cache
            /\ ss' = [ss EXCEPT ![s] = done.sess]
            /\ view' = [k |-> "calcular", msg |-> done.msg]
    /\ UNCHANGED <<pureVars, calcVars, foodsVars, dailyVars, today>>

\* line 425 of a "Guardar": logs_actual = load_logs_df()
GuardarRead(s) ==
    /\ ss[s].logs_actual = None
    /\ ss[s].pending_total # None
    /\ \E logs_actual \in {CachedLoad(logs_cache, LoadLogs(logs_ws))} :
        /\ ~IsError(logs_actual)
        /\ ss[s].edit_log_id = None => new_log_id(logs_actual) <= MaxLogId
        /\ logs_cache' = logs_actual
        /\ ss' = [ss EXCEPT ![s] = [@ EXCEPT !.logs_actual = logs_actual]]
    /\ UNCHANGED <<logs_ws, pureVars, calcVars, foodsVars, dailyVars, today, view>>

\* lines 427-494 of that "Guardar"
GuardarWrite(s) ==
    /\ ss[s].logs_actual # None
    /\ \E done \in {guardar(logs_ws, ss[s].logs_actual, ss[s], DateText(today), NowText(today))} :
        /\ logs_ws' = done.ws
        /\ logs_cache' = done.cache
        /\ ss' = [ss EXCEPT ![s] = done.sess]
        /\ view' = [k |-> "calcular", msg |-> done.msg]
    /\ UNCHANGED <<pureVars, calcVars, foodsVars, dailyVars, today>>

\* the rows of today_logs that "Ver hoy" shows with buttons (line 596)
Shown(today_logs) == {i \in 1..Len(today_logs) : today_logs[i].meal \in MEALS}

\* "Editar" clicked on a row of "Ver hoy" (lines 553-575, 615-640)
Editar(s) ==
    /\ ss[s].logs_actual = None
    /\ \E hoy \in {DateText(today)} :
       \E st \in {get_or_create_daily_status(daily_ws, daily_cache, hoy)} :
       \E logs \in {CachedLoad(logs_cache, LoadLogs(logs_ws))} :
        /\ ~IsError(logs)
        /\ \E today_logs \in {RowsOfDate(logs.rows, hoy)} :
           \E i \in Shown(today_logs) :
            /\ ss' = [ss EXCEPT ![s] =
                        [@ EXCEPT !.edit_log_id = today_logs[i].id,
                                  !.pending_total = None,
                                  !.pending_detail = None,
                                  !.pending_payload = None,
                                  !.pending_meal = Str(today_logs[i].meal)]]
            /\ daily_ws' = st.ws
            /\ daily_cache' = st.cache
            /\ logs_cache' = logs
            /\ view' = [k |-> "calcular", msg |-> "Editando"]
    /\ UNCHANGED <<logs_ws, pureVars, calcVars, foodsVars, today>>

\* "Eliminar" clicked on a row of "Ver hoy" (lines 553-575, 644-652), and the
\* "Ver hoy" run that st.rerun() starts
Eliminar(s) ==
    /\ ss[s].logs_actual = None
    /\ \E hoy \in {DateText(today)} :
       \E st \in {get_or_create_daily_status(daily_ws, daily_cache, hoy)} :
       \E logs \in {CachedLoad(logs_cache, LoadLogs(logs_ws))} :
        /\ ~IsError(logs)
        /\ \E today_logs \in {RowsOfDate(logs.rows, hoy)} :
           \E i \in Shown(today_logs) :
           \E target_row \in {find_row_index_by_id(logs_ws, IntValue(today_logs[i].id))} :
              IF target_row = 0
              THEN /\ logs_ws' = logs_ws
                   /\ logs_cache' = logs
                   /\ daily_ws' = st.ws
                   /\ daily_cache' = st.cache
                   /\ view' = HoyView(hoy, st, logs, FALSE)
              ELSE \E ws2 \in {DeleteRow(logs_ws, target_row)} :
                   \E st2 \in {get_or_create_daily_status(st.ws, st.cache, hoy)} :
                   \E logs2 \in {LoadLogs(ws2)} :
                   /\ logs_ws' = ws2
                   /\ logs_cache' = logs2
                   /\ daily_ws' = st2.ws
                   /\ daily_cache' = st2.cache
                   /\ view' = HoyView(hoy, st2, logs2, FALSE)
    /\ UNCHANGED <<pureVars, calcVars, foodsVars, today, sessVars>>

(***************************************************************************)
(* SpecLogs: one session on a logs sheet the program has kept.  SpecShared:*)
(* two sessions on the same sheet and the same st.cache_data, a "Guardar"  *)
(* being two steps (the read of the logs, then the write) between which    *)
(* the other session may act.                                              *)
(***************************************************************************)
\* the catalog of line 199
LogCatalog ==
    LoadFoods(<<[id |-> <<"1">>, alimento |-> TPollo, tipo |-> T100g,
                 valor_kcal |-> <<"2","9",",","5","9">>],
                [id |-> <<"2">>, alimento |-> THuevo, tipo |-> TUnidad,
                 valor_kcal |-> <<"7","0",".","0","0">>],
                [id |-> <<"3">>, alimento |-> TAgua, tipo |-> T100g,
                 valor_kcal |-> <<"n","a","n">>]>>).rows

\* what is in the widgets when "Calcular" is clicked: meal, lines, free kcal
CalcChoices ==
    { <<TAlmuerzo, <<<<TPollo, 200>>, <<THuevo, 2>>>>, 0>>,
      <<TCena, <<<<TPollo, 3>>>>, 50>>,
      <<TCena, <<<<TAgua, 1>>>>, 0>> }

InitLogs ==
    /\ foods = LogCatalog
    /\ rows_data = <<>> /\ kcal_libres = 0 /\ calc_out = Idle
    /\ logs_ws \in LogSheets
    /\ logs_cache = Idle
    /\ ss = <<FreshSession>>
    /\ PureIdle /\ FoodsIdle /\ DailyIdle /\ ViewIdle

CalcularClick == \E s \in DOMAIN ss : \E c \in CalcChoices : Calcular(s, c[1], c[2], c[3])
CancelarClick == \E s \in DOMAIN ss : CancelarEdicion(s)
GuardarClick == \E s \in DOMAIN ss : Guardar(s)
EditarClick == \E s \in DOMAIN ss : Editar(s)
EliminarClick == \E s \in DOMAIN ss : Eliminar(s)
GuardarReads == \E s \in DOMAIN ss : GuardarRead(s)
GuardarWrites == \E s \in DOMAIN ss : GuardarWrite(s)

NextLogs ==
    \/ CalcularClick
    \/ CancelarClick
    \/ GuardarClick
    \/ EditarClick
    \/ EliminarClick

SpecLogs == InitLogs /\ [][NextLogs]_vars

InitShared ==
    /\ foods = LogCatalog
    /\ rows_data = <<>> /\ kcal_libres = 0 /\ calc_out = Idle
    /\ logs_ws \in LogSheets
    /\ logs_cache = Idle
    /\ ss = <<FreshSession, FreshSession>>
    /\ PureIdle /\ FoodsIdle /\ DailyIdle /\ ViewIdle

\* "Calcular" clicked in either session with the same widgets
CalcularSame ==
    \E s \in DOMAIN ss : Calcular(s, TCena, <<<<TPollo, 3>>>>, 50)

NextShared ==
    \/ CalcularSame
    \/ GuardarReads
    \/ GuardarWrites
    \/ EliminarClick

SpecShared == InitShared /\ [][NextShared]_vars

(***************************************************************************)
(* Properties of "Guardar" (checked under SpecLogs, one session).          *)
(***************************************************************************)
\* the pending calculation of the session
Pending(sess) == <<sess.pending_total, sess.pending_detail, sess.pending_payload>>

\* the step is a "Guardar" with no edit in progress
SavesNew ==
    /\ ss[1].pending_total # None /\ ss[1].edit_log_id = None
    /\ ss'[1].pending_total = None /\ ss'[1].edit_log_id = None

\* the meal and what calc_items returns for each setting of the widgets
CalcResults == { <<c[1], calc_items(LogCatalog, c[2], c[3])>> : c \in CalcChoices }

\* the step is a "Calcular" that returned: it puts the pending calculation
AtCalcular ==
    /\ foods = LogCatalog
    /\ \E r \in CalcResults :
        /\ r[2].k = "ok"
        /\ ss'[1].pending_total = r[2].total
        /\ ss'[1].pending_detail = List(r[2].detail_lines)
        /\ ss'[1].pending_payload = r[2].payload
        /\ ss'[1].pending_meal = Str(r[1])

\* the cell holds the total to the cent
ToTheCent(cell, total) ==
    \E v \in {parse_number(cell)} :
    \E d \in {E4(v) - E4(total)} :
        v.k = "fin" /\ v.e >= -2 /\ d <= 50 /\ -d <= 50

\* C11: a "Guardar" with no edit in progress appends exactly one row to the
\* logs sheet and leaves every row stored before as it was; the new row
\* carries the pending meal, the pending total (written with two decimals)
\* and the pending breakdown (the detail lines joined by newlines, the free
\* kcal, the payload as JSON), and those pending values are the ones the
\* last "Calcular" click that returned has computed.
C11_Step ==
    /\ SavesNew =>
          /\ Len(logs_ws') = Len(logs_ws) + 1
          /\ \A i \in 1..Len(logs_ws) : logs_ws'[i] = logs_ws[i]
          /\ \E row \in {logs_ws'[Len(logs_ws')]} :
                /\ row.meal = ss[1].pending_meal.v
                /\ ToTheCent(row.total_kcal, ss[1].pending_total)
                /\ row.detalle = JoinLines(ss[1].pending_detail.v)
                /\ safe_int(row.kcal_libres) = MkInt(ss[1].pending_payload.kcal_libres)
                /\ row.detalle_json = json_dumps(ss[1].pending_payload)
    /\ (Pending(ss'[1]) # Pending(ss[1]) /\ ss'[1].pending_total # None) => AtCalcular

C11_SaveAppendsPending == [][C11_Step]_vars

\* 0.8877 + 50 kcal of "cena" were saved as the third row, "50.89", below
\* the two rows of the sheet
C11_Witness ==
    /\ view = [k |-> "calcular", msg |-> "Guardado"]
    /\ Len(logs_ws) = 3
    /\ logs_ws[1].total_kcal = <<"2","1","0","0",".","0","0">>
    /\ logs_ws[2].total_kcal = <<"3","3",".","3","3">>
    /\ logs_ws[3].id = <<"3">>
    /\ logs_ws[3].meal = TCena
    /\ logs_ws[3].total_kcal = <<"5","0",".","8","9">>
    /\ logs_ws[3].kcal_libres = <<"5","0">>

(***************************************************************************)
(* The free-text calculator, calculate_from_text.  It belongs to an        *)
(* earlier iteration of the form and is not part of src/app.py; it is      *)
(* modelled from section 4.3 of the specification.  A catalog is a loaded  *)
(* foods DataFrame: tipo "100g" is PER_HUNDRED_GRAMS, "unidad" is PER_UNIT.*)
(***************************************************************************)
\* s[1..n] cut at the characters of seps
RECURSIVE SplitUpTo(_, _, _)
SplitUpTo(s, seps, n) ==
    IF n = 0 THEN <<<<>>>>
    ELSE With(SplitUpTo(s, seps, n - 1), LAMBDA done :
             IF s[n] \in seps THEN Append(done, <<>>)
             ELSE [done EXCEPT ![Len(done)] = Append(@, s[n])])

NonEmpty(w) == w # <<>>

\* the non-empty, trimmed, lower-cased lines of raw_text
TextLines(raw_text) ==
    SelectSeq([i \in 1..Len(SplitUpTo(raw_text, {"\n"}, Len(raw_text))) |->
                   py_lower(py_strip(SplitUpTo(raw_text, {"\n"}, Len(raw_text))[i]))],
              NonEmpty)

\* the words of a line
Words(line) == SelectSeq(SplitUpTo(line, PyWhitespace, Len(line)), NonEmpty)

\* the position after the <number> that w begins with (1: no number)
NumberEnd(w) ==
    With(DigitRun(w, 1), LAMBDA p1 :
        IF p1 = 1 THEN 1
        ELSE IF p1 <= Len(w) /\ w[p1] \in {".", ","} /\ DigitRun(w, p1 + 1) > p1 + 1
             THEN DigitRun(w, p1 + 1)
        ELSE p1)

TKc == <<"k", "c">>
TKcal == <<"k", "c", "a", "l">>
TG == <<"g">>
TGr == <<"g", "r">>
UnitSuffixes == {TKc, TKcal, TG, TGr}

\* the words of a name, joined by single blanks
RECURSIVE JoinWordsUpTo(_, _)
JoinWordsUpTo(ws, n) ==
    IF n = 0 THEN <<>>
    ELSE With(JoinWordsUpTo(ws, n - 1), LAMBDA done :
             (IF n = 1 THEN done ELSE Append(done, " ")) \o ws[n])

\* a line as <name> <number><suffix>, each part possibly empty; k = "none"
\* when the line does not end in a number with an optional unit suffix
LineParts(line) ==
    With(Words(line), LAMBDA ws :
        IF ws = <<>> THEN [k |-> "none"]
        ELSE With(ws[Len(ws)], LAMBDA last :
             With(NumberEnd(last), LAMBDA e :
                IF e > 1 /\ (e = Len(last) + 1 \/ SubSeq(last, e, Len(last)) \in UnitSuffixes)
                THEN [k      |-> "parts",
                      name   |-> JoinWordsUpTo(ws, Len(ws) - 1),
                      number |-> parse_number(SubSeq(last, 1, e - 1)),
                      suffix |-> SubSeq(last, e, Len(last))]
                ELSE IF last \in UnitSuffixes /\ Len(ws) >= 2
                        /\ NumberEnd(ws[Len(ws) - 1]) = Len(ws[Len(ws) - 1]) + 1
                THEN [k      |-> "parts",
                      name   |-> JoinWordsUpTo(ws, Len(ws) - 2),
                      number |-> parse_number(ws[Len(ws) - 1]),
                      suffix |-> last]
                ELSE [k |-> "none"])))

\* the catalog lookup with the trailing-"s" fallback (<<>>: absent)
Lookup(catalog, name) ==
    IF RowsNamed(catalog, name) # <<>> THEN RowsNamed(catalog, name)
    ELSE IF name # <<>> /\ name[Len(name)] = "s"
         THEN RowsNamed(catalog, SubSeq(name, 1, Len(name) - 1))
    ELSE <<>>

\* a name resolved against the catalog and priced in the mode tipo
Priced(catalog, line, parts, tipo) ==
    With(Lookup(catalog, parts.name), LAMBDA found :
        IF found = <<>> THEN [k |-> "UnknownItem", text |-> parts.name]
        ELSE IF found[1].tipo # tipo THEN [k |-> "WrongPricingMode", text |-> parts.name]
        ELSE IF tipo = T100g
             THEN [k |-> "ok", kcal |-> FMul(FMul(parts.number, Fin(FALSE, 1, -2)),
                                            found[1].valor_kcal)]
        ELSE [k |-> "ok", kcal |-> FMul(parts.number, found[1].valor_kcal)])

\* one line: the three patterns, tried in order
LineKcal(catalog, line) ==
    With(LineParts(line), LAMBDA parts :
        IF parts.k = "none" THEN [k |-> "UnparsableLine", text |-> line]
        ELSE IF parts.suffix \in {TKc, TKcal}
             THEN IF parts.name = <<>> THEN [k |-> "ok", kcal |-> parts.number]
                  ELSE [k |-> "UnparsableLine", text |-> line]
        ELSE IF parts.name = <<>> THEN [k |-> "UnparsableLine", text |-> line]
        ELSE IF parts.suffix \in {TG, TGr} THEN Priced(catalog, line, parts, T100g)
        ELSE Priced(catalog, line, parts, TUnidad))

\* a calculator that leaves out the lines that fail
RECURSIVE text_loop_skipping(_, _, _, _)
text_loop_skipping(catalog, lines, i, total) ==
    IF i > Len(lines) THEN [total |-> total, error |-> None]
    ELSE With(LineKcal(catalog, lines[i]), LAMBDA r :
             IF r.k # "ok" THEN text_loop_skipping(catalog, lines, i + 1, total)
             ELSE text_loop_skipping(catalog, lines, i + 1, FAdd(total, r.kcal)))

\* the lines from line i on, total being the sum of the lines before
RECURSIVE text_loop(_, _, _, _)
text_loop(catalog, lines, i, total) ==
    IF i > Len(lines) THEN [total |-> total, error |-> None]
    ELSE With(LineKcal(catalog, lines[i]), LAMBDA r :
             IF r.k # "ok" THEN [total |-> None, error |-> r]
             ELSE text_loop(catalog, lines, i + 1, FAdd(total, r.kcal)))

calculate_from_text(catalog, raw_text) ==
    text_loop(catalog, TextLines(raw_text), 1, Zero)

(***************************************************************************)
(* SpecText: calculate_from_text applied to one catalog and one text of up *)
(* to MaxTextLines lines.                                                  *)
(***************************************************************************)
TTomate == <<"t", "o", "m", "a", "t", "e">>

TextCatalog ==
    LoadFoods(<<[id |-> <<"1">>, alimento |-> TPollo, tipo |-> T100g,
                 valor_kcal |-> <<"1","6","5">>],
                [id |-> <<"2">>, alimento |-> THuevo, tipo |-> TUnidad,
                 valor_kcal |-> <<"7","0">>],
                [id |-> <<"3">>, alimento |-> TTomate, tipo |-> T100g,
                 valor_kcal |-> <<"1","8">>]>>).rows

TextLinePool ==
    { <<"P", "o", "l", "l", "o", " ", "2", "0", "0", " ", "g", " ">>,
      <<"2", "5", "0", " ", "k", "c", "a", "l">>,
      <<"h", "u", "e", "v", "o", " ", "2">>,
      <<"t", "o", "m", "a", "t", "e", "s", " ", "1", "0", "0", "g", "r">>,
      <<"p", "a", "n", " ", "5", "0", " ", "g">>,
      <<"h", "u", "e", "v", "o", " ", "1", "0", "0", " ", "g">>,
      <<"d", "o", "s", " ", "h", "u", "e", "v", "o", "s">>,
      <<" ">> }

\* the texts of 1..n lines of the pool, joined by newlines
RECURSIVE TextsOfLines(_)
TextsOfLines(n) ==
    IF n = 1 THEN TextLinePool
    ELSE With(TextsOfLines(n - 1), LAMBDA S :
             S \cup { t \o <<"\n">> \o l : t \in S, l \in TextLinePool })

InitText ==
    /\ foods = TextCatalog
    /\ raw \in TextsOfLines(MaxTextLines)
    /\ calc_out = Idle
    /\ rows_data = <<>> /\ kcal_libres = 0
    /\ pn_out = Idle /\ si_out = Idle
    /\ FoodsIdle /\ DailyIdle /\ LogsIdle /\ ViewIdle /\ SessIdle

CallCalculateFromText ==
    /\ calc_out = Idle
    /\ calc_out' = calculate_from_text(foods, raw)
    /\ UNCHANGED <<raw, pn_out, si_out, foods, rows_data, kcal_libres, foodsVars,
                   dailyVars, logsVars, today, view, sessVars>>

NextText == CallCalculateFromText

SpecText == InitText /\ [][NextText]_vars

(***************************************************************************)
(* Property of calculate_from_text (checked under SpecText).               *)
(***************************************************************************)
\* the kcal of lines 1..n added up in order, each line taken on its own
RECURSIVE SumLinesUpTo(_, _)
SumLinesUpTo(lines, n) ==
    IF n = 0 THEN Zero
    ELSE With(SumLinesUpTo(lines, n - 1), LAMBDA before :
             FAdd(before, LineKcal(foods, lines[n]).kcal))

\* C12: free-text mode is all-or-nothing.  calculate_from_text returns a
\* total and no error only when every non-empty line parses and resolves
\* (the total is then the sum of the lines); when any line fails (unknown
\* item, wrong pricing mode or unparsable line) it returns no total and the
\* error of a failing line, wherever the failing line stands and however
\* many lines before it succeeded.
C12_AllOrNothing ==
    calc_out # Idle =>
        \E lines \in {TextLines(raw)} :
        \E failing \in {{i \in 1..Len(lines) : LineKcal(foods, lines[i]).k # "ok"}} :
            IF failing = {}
            THEN /\ calc_out.error = None
                 /\ calc_out.total = SumLinesUpTo(lines, Len(lines))
            ELSE /\ calc_out.total = None
                 /\ calc_out.error # None
                 /\ \E i \in failing :
                       /\ calc_out.error = LineKcal(foods, lines[i])
                       /\ calc_out.error.k \in {"UnknownItem", "WrongPricingMode",
                                                "UnparsableLine"}

\* two lines that succeed (330 and 250 kcal), then "pan", which the catalog
\* does not hold: no total
C12_Witness ==
    /\ raw = <<"P", "o", "l", "l", "o", " ", "2", "0", "0", " ", "g", " ", "\n", "2", "5", "0", " ", "k", "c", "a", "l", "\n", "p", "a", "n", " ", "5", "0", " ", "g">>
    /\ calc_out = [total |-> None,
                   error |-> [k |-> "UnknownItem", text |-> TPan]]

(***************************************************************************)
(* Property of the ids of the logs sheet (checked under SpecShared, two    *)
(* sessions).                                                              *)
(***************************************************************************)
\* C13: no two rows of the logs sheet ever share an id, whatever "Guardar"
\* and "Eliminar" operations the two sessions take on the sheet and however
\* the read of the current ids and the append of the two sessions interleave.
C13_UniqueIds ==
    \A i, j \in 1..Len(logs_ws) :
        safe_int(logs_ws[i].id) = safe_int(logs_ws[j].id) => i = j

(***************************************************************************)
(* Properties of "Guardar" while an edit is in progress and of the pending *)
(* calculation (checked under SpecLogs, one session).                      *)
(***************************************************************************)
\* the step is a "Guardar" taken while an edit is in progress
SavesEdit ==
    /\ ss[1].pending_total # None /\ ss[1].edit_log_id # None
    /\ ss'[1] # ss[1]
    /\ view'.k = "calcular" /\ view'.msg \in {"Actualizado", "No encontré la fila"}

\* the rows of the sheet whose id cell reads k
RowsWithId(k) == {i \in 1..Len(logs_ws) : safe_int(logs_ws[i].id) = k}

\* C14: a "Guardar" taken while an edit is in progress (edit_log_id = k)
\* updates in place: the sheet keeps its number of rows and every row keeps
\* its id; only the row whose id is k may change, and it then carries the
\* pending meal, total and breakdown; every other row stays as it was; when
\* no row has id k (the entry was deleted after "Editar" was clicked)
\* nothing is written to the sheet; edit_log_id is None afterwards.
C14_Step ==
    SavesEdit =>
        \E edited \in {RowsWithId(ss[1].edit_log_id)} :
            /\ Len(logs_ws') = Len(logs_ws)
            /\ \A i \in 1..Len(logs_ws) :
                  /\ logs_ws'[i].id = logs_ws[i].id
                  /\ i \notin edited => logs_ws'[i] = logs_ws[i]
            /\ edited = {} => logs_ws' = logs_ws
            /\ \A i \in edited :
                  /\ logs_ws'[i].meal = ss[1].pending_meal.v
                  /\ ToTheCent(logs_ws'[i].total_kcal, ss[1].pending_total)
                  /\ logs_ws'[i].detalle = JoinLines(ss[1].pending_detail.v)
            /\ (view'.msg = "Actualizado") = (edited # {})
            /\ ss'[1].edit_log_id = None

C14_EditUpdatesInPlace == [][C14_Step]_vars

\* of the three rows of the sheet, the first was edited in place (to 50.89
\* kcal of "cena"); then "Editar" was clicked on the second, the second was
\* deleted, and "Guardar" found no row to update
C14_Witness ==
    /\ view = [k |-> "calcular", msg |-> "No encontré la fila"]
    /\ ss[1].edit_log_id = None
    /\ Len(logs_ws) = 2
    /\ logs_ws[1].id = <<"1">>
    /\ logs_ws[1].meal = TCena
    /\ logs_ws[1].total_kcal = <<"5","0",".","8","9">>
    /\ logs_ws[2].id = <<"3">>
    /\ logs_ws[2].total_kcal = <<"6","5","0",".","2","5">>

\* the messages with which "Guardar" ends
GuardarMsgs == {"Guardado", "Actualizado", "No encontré la fila"}

\* the step is a "Guardar" (either path) or a "Cancelar edición"
SavesOrCancels ==
    /\ ss'[1] # ss[1]
    /\ view'.k = "calcular" /\ view'.msg \in GuardarMsgs \cup {"Edición cancelada"}

\* pending_total, pending_detail and pending_payload: all None or all set
AllOrNone(sess) ==
    \/ sess.pending_total = None /\ sess.pending_detail = None /\ sess.pending_payload = None
    \/ sess.pending_total # None /\ sess.pending_detail # None /\ sess.pending_payload # None

\* C15: a calculation is persisted at most once.  "Guardar" is taken only
\* while pending_total is not None; after "Guardar" (either path) or
\* "Cancelar edición" pending_total, pending_detail, pending_payload,
\* pending_meal and edit_log_id are all None; pending_total becomes set only
\* at a "Calcular" click, so that between two writes of "Guardar" to the logs
\* sheet there is a "Calcular" click; and pending_total, pending_detail and
\* pending_payload are at all times all None or all set.
C15_Step ==
    /\ AllOrNone(ss[1]) /\ AllOrNone(ss'[1])
    /\ SavesOrCancels =>
          /\ ss'[1].pending_total = None
          /\ ss'[1].pending_detail = None
          /\ ss'[1].pending_payload = None
          /\ ss'[1].pending_meal = None
          /\ ss'[1].edit_log_id = None
          /\ view'.msg \in GuardarMsgs => ss[1].pending_total # None
    /\ (logs_ws' # logs_ws /\ view'.k = "calcular") =>
          /\ view'.msg \in GuardarMsgs
          /\ ss[1].pending_total # None
          /\ ss'[1].pending_total = None
    /\ (ss[1].pending_total = None /\ ss'[1].pending_total # None) =>
          /\ view' = [k |-> "calcular", msg |-> "total"]
          /\ AtCalcular

C15_PersistedAtMostOnce == [][C15_Step]_vars

\* two calculations were saved into an empty sheet, one "Guardar" each, and
\* nothing is pending
C15_Witness ==
    /\ view = [k |-> "calcular", msg |-> "Guardado"]
    /\ ss[1] = FreshSession
    /\ Len(logs_ws) = 2
    /\ logs_ws[1].id = <<"1">> /\ logs_ws[1].detalle_json # <<>>
    /\ logs_ws[2].id = <<"2">> /\ logs_ws[2].detalle_json # <<>>
    /\ logs_ws[1].meal # logs_ws[2].meal

(***************************************************************************)
(* Property of the daily_status sheet (checked under SpecDaily).           *)
(***************************************************************************)
\* the rows of a daily_status sheet stored for a date
DatedRows(values, fecha) == {i \in 1..Len(values) : py_strip(values[i].fecha) = fecha}

OneRowPerDate(values) ==
    \A i, j \in 1..Len(values) :
        py_strip(values[i].fecha) = py_strip(values[j].fecha) => i = j

\* C16: the daily_status sheet holds at most one row per date.  After any
\* sequence of "Ver hoy" views and gym/normal toggles no two rows have the
\* same fecha; a view writes only when the date has no row, and then appends
\* the default normal-day row; a toggle on a date that has a row changes
\* only the gym and meta cells of that row, and on a date that has none
\* appends its row.
C16_Step ==
    /\ OneRowPerDate(daily_ws) /\ OneRowPerDate(daily_ws')
    /\ daily_ws' # daily_ws =>
          \E hoy \in {DateText(today)} :
          \E rows \in {DatedRows(daily_ws, hoy)} :
              /\ view'.k = "hoy" /\ view'.fecha = hoy
              /\ \A i \in 1..Len(daily_ws) :
                    /\ daily_ws'[i].fecha = daily_ws[i].fecha
                    /\ i \notin rows => daily_ws'[i] = daily_ws[i]
              /\ IF rows = {}
                 THEN /\ Len(daily_ws') = Len(daily_ws) + 1
                      /\ daily_ws'[Len(daily_ws')].fecha = hoy
                      /\ ~view'.actualizado =>
                            daily_ws'[Len(daily_ws')] =
                                [fecha |-> hoy, gym |-> TFalse, meta |-> <<"1","7","0","0">>]
                 ELSE /\ Len(daily_ws') = Len(daily_ws)
                      /\ view'.actualizado
                      /\ \A i \in rows :
                            safe_bool(daily_ws'[i].gym) = ~safe_bool(daily_ws[i].gym)

C16_OneRowPerDate == [][C16_Step]_vars

\* day 1 had its row and was toggled to gym in place; day 2 got its default
\* row from a view and day 3 its row from a view and a toggle
C16_Witness ==
    /\ today = 3
    /\ view.k = "hoy" /\ view.actualizado /\ view.gym
    /\ Len(daily_ws) = 3
    /\ daily_ws[1] = [fecha |-> DateText(1), gym |-> TTrue, meta |-> <<"1","9","5","0">>]
    /\ daily_ws[2] = [fecha |-> DateText(2), gym |-> TFalse, meta |-> <<"1","7","0","0">>]
    /\ daily_ws[3] = [fecha |-> DateText(3), gym |-> TTrue, meta |-> <<"1","9","5","0">>]

=============================================================================
